---- MODULE Spec2Model ----
(***************************************************************************)
(* Model of omni-grab's download-progress tracking (src/app.py:            *)
(* download_worker, progress_callback, get_progress.generate,              *)
(* cleanup_task) and of its streaming delivery path (src/app.py: download, *)
(* src/downloader.py: MediaEngine.stream_download).                        *)
(*                                                                         *)
(* Percentages are held as integers: the adapter's raw percentage in       *)
(* hundredths of a percent, the stored (rounded to one decimal) percentage *)
(* in tenths of a percent.  A message is the pair of its format text and   *)
(* the values formatted into it.                                           *)
(***************************************************************************)
EXTENDS Integers, Sequences, FiniteSets, TLC

\* ------------------------------------------------------------- bounds
\* Progress events yt-dlp delivers to the hook during one fetch.
MaxEvents == 3

\* Task ids: t1 is handed to a download_worker, t2 is never created.
TaskIds == {"t1", "t2"}
Launched == {"t1"}
\* Clients that may open one get_progress subscription each.  A subscription
\* only reads the table and never holds the lock across two steps, so
\* subscriptions do not influence one another or the worker.
Readers == {"r1"}

\* ------------------------------------------------------------- values
\* A message with nothing formatted into it.
NoArg == <<>>
Msg(text, arg) == [text |-> text, arg |-> arg]

\* The value of last_status before the first event (Python None).
NoneValue == [status |-> "None"]
\* hook does not call the callback.
NoCall == [status |-> "nocall", percentage |-> 0]
NoResult == [kind |-> "none"]

\* What d['downloaded_bytes'] and d['total_bytes'] may be in a 'downloading'
\* event (none of the resulting percentages is a rounding tie).
DownloadedBytes == {4237, 4241, 10000}
TotalBytes == {0, 10000}
Filenames == {"My Song.mp3"}
\* What ydl.extract_info(url, download=True) does inside download_media.
ExtractOutcomes == {"info", "None", "DownloadError", "Exception"}

\* round(x, 1): raw hundredths to stored tenths.
round1(h) == (h + 5) \div 10

\* A removal that empties the table.
Del_whole_table(dp, t) == << >>

\* dict assignment and del on download_progress (a function whose DOMAIN is
\* the dict's key set).
Put(dp, t, rec) == [k \in (DOMAIN dp) \cup {t} |-> IF k = t THEN rec ELSE dp[k]]
Del(dp, t) == [k \in (DOMAIN dp) \ {t} |-> dp[k]]

\* cleanup_task, lines 284-287: the response, whatever the table held.
cleanup_response(dp, t) == [success |-> TRUE, message |-> "Tarea limpiada", status |-> 200]

ConnectingRecord ==
    [status |-> "downloading", percentage |-> 0, message |-> Msg("Conectando...", NoArg)]

DownloadingRecord(pct) ==
    [status |-> "downloading", percentage |-> round1(pct),
     message |-> Msg("Descargando... {}%", <<round1(pct)>>)]

NotFoundRecord ==
    [status |-> "not_found", percentage |-> 0, message |-> Msg("Tarea no encontrada", NoArg)]

\* MediaEngine._create_progress_hook.hook: the argument it passes to the
\* callback for yt-dlp's status dict d, or NoCall.
hook(d) ==
    IF d.status = "downloading"
    THEN IF d.total > 0
         THEN [status |-> "downloading", percentage |-> (d.downloaded * 10000) \div d.total]
         ELSE NoCall
    ELSE IF d.status = "finished"
    THEN [status |-> "finished", percentage |-> 10000]
    ELSE IF d.status = "error"
    THEN [status |-> "error", percentage |-> 0]
    ELSE NoCall

\* MediaEngine.download_media: what it hands back for each behaviour of
\* extract_info.  Every Exception is caught inside it, so it always returns.
download_media(outcome, filename) ==
    IF outcome = "info"
    THEN [kind |-> "return", success |-> TRUE, filename |-> filename,
          error |-> Msg("", NoArg)]
    ELSE IF outcome = "None"
    THEN [kind |-> "return", success |-> FALSE, filename |-> "",
          error |-> Msg("No se pudo descargar el archivo", NoArg)]
    ELSE IF outcome = "DownloadError"
    THEN [kind |-> "return", success |-> FALSE, filename |-> "",
          error |-> Msg("Error de descarga: {}", NoArg)]
    ELSE [kind |-> "return", success |-> FALSE, filename |-> "",
          error |-> Msg("Error inesperado: {}", NoArg)]

\* terminal_record with the failure branch writing a stale status.
terminal_record_stale_status(res) ==
    IF res.kind = "return" /\ res.success
    THEN [status |-> "completed", percentage |-> 1000,
          message |-> Msg("Descarga completada", NoArg),
          filename |-> res.filename,
          download_url |-> <<"/downloads/", res.filename>>]
    ELSE [status |-> "downloading", percentage |-> 0, message |-> res.error]

\* The record download_worker writes once download_media is over: the two
\* branches on result['success'], and the except handler for a call that raised.
terminal_record(res) ==
    IF res.kind = "return" /\ res.success
    THEN [status |-> "completed", percentage |-> 1000,
          message |-> Msg("Descarga completada", NoArg),
          filename |-> res.filename,
          download_url |-> <<"/downloads/", res.filename>>]
    ELSE IF res.kind = "return"
    THEN [status |-> "error", percentage |-> 0, message |-> res.error]
    ELSE [status |-> "error", percentage |-> 0, message |-> Msg("Error: {}", NoArg)]

\* get_progress.generate, the statement under the lock: a copy of the record
\* or the synthesized not_found record.
snapshot(dp, t) == IF t \in DOMAIN dp THEN dp[t] ELSE NotFoundRecord

\* StopStatuses without the synthesized status.
StopStatuses_without_not_found == {"completed", "error"}

\* The statuses on which get_progress.generate leaves its loop.
StopStatuses == {"completed", "error", "not_found"}

\* generate's comparison without the duplicate suppression.
changed_always(cur, last) == TRUE

\* generate, line 231: the event is sent when the copy differs from last_status.
changed(cur, last) == cur # last

\* generate's exit test without 'error'.
loop_ends_not_on_error(cur) == cur.status \in {"completed", "not_found"}

\* generate, line 236: the test that ends the loop.
loop_ends(cur) == cur.status \in StopStatuses

VARIABLES
    download_progress,  \* the dict task id -> record
    download_lock,      \* "free" or the task id of the worker holding it
    wpc,                \* per worker: start, fetching, patching, returned, done
    events,             \* per worker: progress events delivered so far
    result,             \* per worker: what download_media handed back
    rpc,                \* per reader: idle, polling, done
    rtask,              \* per reader: the task id of its subscription
    last_status,        \* per reader: generate's last_status
    current_progress,   \* per reader: generate's current_progress
    emitted,            \* per reader: the events yielded so far
    hist,               \* per reader: the distinct values its record took since its first poll
    removed,            \* task ids whose record a cleanup_task call deleted
    removedInFlight,    \* task ids whose record was deleted while the fetch ran
    callbackFailed,     \* workers whose progress_callback raised
    lastWrite,          \* per worker: the last record it wrote
    afterCleanup        \* readers that subscribed after a cleanup removed the record

progressVars == <<download_progress, download_lock, wpc, events, result, rpc, rtask,
                  last_status, current_progress, emitted, hist, removed,
                  removedInFlight, callbackFailed, lastWrite, afterCleanup>>

\* The streaming path: one POST /api/download request and its response.
VARIABLES
    resp,            \* what download() returned: none, a JSON failure or the streamed Response
    gpc,             \* the response generator: unstarted, fetching, opening, reading, yielded, ended
    tempDir,         \* whether the directory made by tempfile.mkdtemp exists
    dirFiles,        \* the number of files in it
    located,         \* whether os.path.exists(filename) holds at line 386
    remaining,       \* bytes of the file not yet read
    sent,            \* bytes yielded to the transport
    exitKind,        \* how the generator ended: exhausted, closed or fault
    rmtreeFailed,    \* whether shutil.rmtree raised (and was logged)
    failedEarly      \* whether the request failed before any byte was yielded

streamVars == <<resp, gpc, tempDir, dirFiles, located, remaining, sent, exitKind,
                rmtreeFailed, failedEarly>>

vars == <<progressVars, streamVars>>

\* A lock that excludes nobody.
download_lock_never_held == TRUE

\* threading.Lock: a `with download_lock` block is entered only when no
\* thread holds the lock.
download_lock_free == download_lock = "free"

\* Progress hooks that still run after download_media has returned.
fetch_running_or_over(t) == wpc[t] \in {"fetching", "done"}

\* yt-dlp calls the progress hooks inside extract_info, on the worker's own
\* thread: only between the initial write and the return of download_media.
fetch_running(t) == wpc[t] = "fetching"

\* The values a subscription's record took: appended whenever a committed
\* write changes what the reader's next poll would obtain.
Observe(dp) ==
    [r \in Readers |->
        IF rpc[r] = "polling" /\ hist[r] # <<>>
           /\ snapshot(dp, rtask[r]) # hist[r][Len(hist[r])]
        THEN Append(hist[r], snapshot(dp, rtask[r]))
        ELSE hist[r]]

readerVars == <<rpc, rtask, last_status, current_progress, emitted, afterCleanup>>
ghostVars == <<removed, removedInFlight, callbackFailed>>

\* download_worker, lines 163-169: the initial write.
WorkerStart(t) ==
    /\ wpc[t] = "start"
    /\ download_lock_free
    /\ download_progress' = Put(download_progress, t, ConnectingRecord)
    /\ lastWrite' = [lastWrite EXCEPT ![t] = ConnectingRecord]
    /\ wpc' = [wpc EXCEPT ![t] = "fetching"]
    /\ hist' = Observe(download_progress')
    /\ UNCHANGED streamVars
    /\ UNCHANGED <<download_lock, events, result, readerVars, ghostVars>>

\* hook + progress_callback for a 'downloading' event: the record is replaced
\* (created when a cleanup removed it); without a total the callback is not called.
ProgressDownloading(t, d) ==
    /\ fetch_running(t)
    /\ events[t] < MaxEvents
    /\ d.status = "downloading"
    /\ events' = [events EXCEPT ![t] = @ + 1]
    /\ IF hook(d) = NoCall
       THEN UNCHANGED <<download_progress, lastWrite, hist>>
       ELSE /\ download_lock_free
            /\ download_progress' =
                   Put(download_progress, t, DownloadingRecord(hook(d).percentage))
            /\ lastWrite' = [lastWrite EXCEPT ![t] = DownloadingRecord(hook(d).percentage)]
            /\ hist' = Observe(download_progress')
    /\ UNCHANGED streamVars
    /\ UNCHANGED <<download_lock, wpc, result, readerVars, ghostVars>>

\* hook + progress_callback for a 'finished' event, line 159: the status is
\* patched in place and the lock stays held; on a record that a cleanup
\* removed the subscript raises KeyError, which leaves the callback, the hook
\* and extract_info, and download_media returns its 'Error inesperado' result.
ProgressFinished(t) ==
    /\ fetch_running(t)
    /\ events[t] < MaxEvents
    /\ download_lock_free
    /\ events' = [events EXCEPT ![t] = @ + 1]
    /\ IF t \in DOMAIN download_progress
       THEN /\ download_progress' =
                   [download_progress EXCEPT ![t].status = "processing"]
            /\ download_lock' = t
            /\ wpc' = [wpc EXCEPT ![t] = "patching"]
            /\ UNCHANGED <<result, callbackFailed>>
       ELSE /\ result' = [result EXCEPT ![t] = download_media("Exception", "")]
            /\ wpc' = [wpc EXCEPT ![t] = "returned"]
            /\ callbackFailed' = callbackFailed \cup {t}
            /\ UNCHANGED <<download_progress, download_lock>>
    /\ UNCHANGED streamVars
    /\ UNCHANGED <<lastWrite, hist, readerVars, removed, removedInFlight>>

\* progress_callback for a 'finished' event, line 160, and the end of the
\* with block.
ProgressFinishedMessage(t) ==
    /\ wpc[t] = "patching"
    /\ IF t \in DOMAIN download_progress
       THEN /\ download_progress' =
                   [download_progress EXCEPT
                       ![t].message = Msg("Procesando archivo...", NoArg)]
            /\ lastWrite' = [lastWrite EXCEPT ![t] = download_progress'[t]]
            /\ wpc' = [wpc EXCEPT ![t] = "fetching"]
            /\ UNCHANGED <<result, callbackFailed>>
       ELSE /\ result' = [result EXCEPT ![t] = download_media("Exception", "")]
            /\ wpc' = [wpc EXCEPT ![t] = "returned"]
            /\ callbackFailed' = callbackFailed \cup {t}
            /\ UNCHANGED <<download_progress, lastWrite>>
    /\ download_lock' = "free"
    /\ hist' = Observe(download_progress')
    /\ UNCHANGED streamVars
    /\ UNCHANGED <<events, readerVars, removed, removedInFlight>>

\* hook + progress_callback for an 'error' event: the lock is taken and
\* neither branch applies.
ProgressError(t) ==
    /\ fetch_running(t)
    /\ events[t] < MaxEvents
    /\ download_lock_free
    /\ events' = [events EXCEPT ![t] = @ + 1]
    /\ UNCHANGED streamVars
    /\ UNCHANGED <<download_progress, download_lock, wpc, result, lastWrite, hist,
                   readerVars, ghostVars>>

\* download_media returns to download_worker (line 172).
AdapterReturn(t, outcome, filename) ==
    /\ fetch_running(t)
    /\ result' = [result EXCEPT ![t] = download_media(outcome, filename)]
    /\ wpc' = [wpc EXCEPT ![t] = "returned"]
    /\ UNCHANGED streamVars
    /\ UNCHANGED <<download_progress, download_lock, events, lastWrite, hist,
                   readerVars, ghostVars>>

\* download_worker, lines 178-201: the terminal write.
WorkerFinish(t) ==
    /\ wpc[t] = "returned"
    /\ download_lock_free
    /\ download_progress' = Put(download_progress, t, terminal_record(result[t]))
    /\ lastWrite' = [lastWrite EXCEPT ![t] = terminal_record(result[t])]
    /\ wpc' = [wpc EXCEPT ![t] = "done"]
    /\ hist' = Observe(download_progress')
    /\ UNCHANGED streamVars
    /\ UNCHANGED <<download_lock, events, result, readerVars, ghostVars>>

\* A client opens GET /api/progress/<task_id>: generate starts with
\* last_status = None.
Subscribe(r, t) ==
    /\ rpc[r] = "idle"
    /\ rpc' = [rpc EXCEPT ![r] = "polling"]
    /\ rtask' = [rtask EXCEPT ![r] = t]
    /\ afterCleanup' = IF t \in removed THEN afterCleanup \cup {r} ELSE afterCleanup
    /\ UNCHANGED streamVars
    /\ UNCHANGED <<download_progress, download_lock, wpc, events, result, last_status,
                   current_progress, emitted, hist, lastWrite, ghostVars>>

\* One turn of generate's loop: the read under the lock, the comparison with
\* last_status, the yield, and the test that ends the loop.
Poll(r) ==
    /\ rpc[r] = "polling"
    /\ download_lock_free
    /\ LET cur == snapshot(download_progress, rtask[r]) IN
       /\ current_progress' = [current_progress EXCEPT ![r] = cur]
       /\ IF changed(cur, last_status[r])
          THEN /\ emitted' = [emitted EXCEPT ![r] = Append(@, cur)]
               /\ last_status' = [last_status EXCEPT ![r] = cur]
          ELSE UNCHANGED <<emitted, last_status>>
       /\ rpc' = [rpc EXCEPT ![r] = IF loop_ends(cur) THEN "done" ELSE "polling"]
       /\ hist' = [hist EXCEPT ![r] = IF @ = <<>> THEN <<cur>> ELSE @]
    /\ UNCHANGED streamVars
    /\ UNCHANGED <<download_progress, download_lock, wpc, events, result, rtask,
                   lastWrite, afterCleanup, ghostVars>>

\* cleanup_task: DELETE /api/cleanup/<task_id>.
cleanup_task(t) ==
    /\ download_lock_free
    /\ download_progress' = Del(download_progress, t)
    /\ removed' = IF t \in DOMAIN download_progress THEN removed \cup {t} ELSE removed
    /\ removedInFlight' =
           IF t \in DOMAIN download_progress /\ t \in Launched /\ wpc[t] = "fetching"
           THEN removedInFlight \cup {t} ELSE removedInFlight
    /\ hist' = Observe(download_progress')
    /\ UNCHANGED streamVars
    /\ UNCHANGED <<download_lock, wpc, events, result, readerVars, callbackFailed, lastWrite>>

\* ------------------------------------------------------------- streaming path
\* f.read(8192)
ChunkSize == 8192
\* Sizes of the fetched file, in bytes.
FileSizes == {0, 5000, 8192, 20000}
Bodies == {"malformed", "no_url", "url"}
Formats == {"audio_mp3", "video_best"}

NoResponse == [kind |-> "none", status |-> 0, mimetype |-> ""]
JsonFailure(code) == [kind |-> "json", status |-> code, mimetype |-> "application/json"]
\* Response(generate(), mimetype=mimetype): the status is 200.
StreamResponse(format) ==
    [kind |-> "stream", status |-> 200,
     mimetype |-> IF format = "audio_mp3" THEN "audio/mpeg" ELSE "video/mp4"]

Min(a, b) == IF a < b THEN a ELSE b

\* The removal placed after the read loop instead of in a finally block.
cleanup_runs_after_loop_only(kind) == kind = "exhausted"

\* stream_download's finally block: it runs however the generator is left.
cleanup_runs(kind) == kind \in {"exhausted", "closed", "fault"}

\* The generator is left with `files` files in the directory (kind:
\* exhausted, closed by the consumer, or a fault that download.generate
\* catches and prints; failure: nothing could be streamed from here on): the
\* finally block calls shutil.rmtree, and an exception of rmtree is printed
\* and dropped.
LeaveGenerator(kind, files, failure, rmtreeOk) ==
    /\ gpc' = "ended"
    /\ exitKind' = kind
    /\ IF cleanup_runs(kind)
       THEN /\ tempDir' = IF rmtreeOk THEN FALSE ELSE tempDir
            /\ dirFiles' = IF rmtreeOk THEN 0 ELSE files
            /\ rmtreeFailed' = ~rmtreeOk
       ELSE /\ dirFiles' = files
            /\ UNCHANGED <<tempDir, rmtreeFailed>>
    /\ failedEarly' = (failedEarly \/ (failure /\ sent = 0))

\* download(), lines 79-137: the body is read, the URL analysed, and either
\* a JSON failure or the streaming Response is returned; the generator has
\* not run yet.
download(body, analysis, format) ==
    /\ resp = NoResponse
    /\ resp' = IF body = "malformed" THEN JsonFailure(500)
               ELSE IF body = "no_url" THEN JsonFailure(400)
               ELSE IF analysis = "failure" THEN JsonFailure(400)
               ELSE StreamResponse(format)
    /\ failedEarly' = (body # "url" \/ analysis = "failure")
    /\ UNCHANGED <<gpc, tempDir, dirFiles, located, remaining, sent, exitKind, rmtreeFailed>>
    /\ UNCHANGED progressVars

\* The transport asks for the first chunk: stream_download runs up to the
\* fetch, line 324 makes the temporary directory.
StartGenerator ==
    /\ resp.kind = "stream"
    /\ gpc = "unstarted"
    /\ gpc' = "fetching"
    /\ tempDir' = TRUE
    /\ UNCHANGED <<resp, dirFiles, located, remaining, sent, exitKind, rmtreeFailed, failedEarly>>
    /\ UNCHANGED progressVars

\* extract_info(url, download=True) or prepare_filename raises, possibly
\* with a partial file written: except prints and re-raises, finally runs.
FetchRaises(files, rmtreeOk) ==
    /\ gpc = "fetching"
    /\ LeaveGenerator("fault", files, TRUE, rmtreeOk)
    /\ UNCHANGED <<resp, located, remaining, sent>>
    /\ UNCHANGED progressVars

\* The fetch returns, lines 373-386: the predicted name exists, or the first
\* file of the directory is taken; with no file at all nothing is streamed
\* and the generator ends without a chunk.
FetchReturns(files, predictedExists, size, rmtreeOk) ==
    /\ gpc = "fetching"
    /\ predictedExists => files > 0
    /\ IF predictedExists \/ files > 0
       THEN /\ gpc' = "opening"
            /\ located' = TRUE
            /\ dirFiles' = files
            /\ remaining' = size
            /\ UNCHANGED <<tempDir, exitKind, rmtreeFailed, failedEarly>>
       ELSE /\ LeaveGenerator("exhausted", files, TRUE, rmtreeOk)
            /\ UNCHANGED <<located, remaining>>
    /\ UNCHANGED <<resp, sent>>
    /\ UNCHANGED progressVars

\* open(filename, 'rb'), line 387.
OpenFile(ok, rmtreeOk) ==
    /\ gpc = "opening"
    /\ IF ok
       THEN /\ gpc' = "reading"
            /\ UNCHANGED <<tempDir, dirFiles, exitKind, rmtreeFailed, failedEarly>>
       ELSE LeaveGenerator("fault", dirFiles, TRUE, rmtreeOk)
    /\ UNCHANGED <<resp, located, remaining, sent>>
    /\ UNCHANGED progressVars

\* One turn of the read loop, lines 388-392: f.read(8192) raises, returns
\* nothing (the loop and the generator end) or returns a chunk that is yielded.
ReadChunk(ok, rmtreeOk) ==
    /\ gpc = "reading"
    /\ IF ~ok
       THEN /\ LeaveGenerator("fault", dirFiles, TRUE, rmtreeOk)
            /\ UNCHANGED <<remaining, sent>>
       ELSE IF remaining = 0
       THEN /\ LeaveGenerator("exhausted", dirFiles, FALSE, rmtreeOk)
            /\ UNCHANGED <<remaining, sent>>
       ELSE /\ gpc' = "yielded"
            /\ sent' = sent + Min(ChunkSize, remaining)
            /\ remaining' = remaining - Min(ChunkSize, remaining)
            /\ UNCHANGED <<tempDir, dirFiles, exitKind, rmtreeFailed, failedEarly>>
    /\ UNCHANGED <<resp, located>>
    /\ UNCHANGED progressVars

\* The transport asks for the next chunk.
NextChunk ==
    /\ gpc = "yielded"
    /\ gpc' = "reading"
    /\ UNCHANGED <<resp, tempDir, dirFiles, located, remaining, sent, exitKind,
                   rmtreeFailed, failedEarly>>
    /\ UNCHANGED progressVars

\* The client goes away between two chunks: the transport closes the
\* generator, GeneratorExit is raised at the yield and is not an Exception.
CloseEarly(rmtreeOk) ==
    /\ gpc = "yielded"
    /\ LeaveGenerator("closed", dirFiles, FALSE, rmtreeOk)
    /\ UNCHANGED <<resp, located, remaining, sent>>
    /\ UNCHANGED progressVars

StreamNext ==
    \/ \E b \in Bodies, a \in {"success", "failure"}, f \in Formats : download(b, a, f)
    \/ StartGenerator
    \/ \E n \in 0..1, ok \in BOOLEAN : FetchRaises(n, ok)
    \/ \E n \in 0..2, p \in BOOLEAN, sz \in FileSizes, ok \in BOOLEAN :
          FetchReturns(n, p, sz, ok)
    \/ \E o \in BOOLEAN, ok \in BOOLEAN : OpenFile(o, ok)
    \/ \E o \in BOOLEAN, ok \in BOOLEAN : ReadChunk(o, ok)
    \/ NextChunk
    \/ \E ok \in BOOLEAN : CloseEarly(ok)

Init ==
    /\ download_progress = << >>
    /\ download_lock = "free"
    /\ wpc = [t \in Launched |-> "start"]
    /\ events = [t \in Launched |-> 0]
    /\ result = [t \in Launched |-> NoResult]
    /\ rpc = [r \in Readers |-> "idle"]
    /\ rtask = [r \in Readers |-> "t1"]
    /\ last_status = [r \in Readers |-> NoneValue]
    /\ current_progress = [r \in Readers |-> NoneValue]
    /\ emitted = [r \in Readers |-> <<>>]
    /\ hist = [r \in Readers |-> <<>>]
    /\ removed = {}
    /\ removedInFlight = {}
    /\ callbackFailed = {}
    /\ lastWrite = [t \in Launched |-> NoneValue]
    /\ afterCleanup = {}
    /\ resp = NoResponse
    /\ gpc = "unstarted"
    /\ tempDir = FALSE
    /\ dirFiles = 0
    /\ located = FALSE
    /\ remaining = 0
    /\ sent = 0
    /\ exitKind = "none"
    /\ rmtreeFailed = FALSE
    /\ failedEarly = FALSE

Next ==
    \/ \E t \in Launched : WorkerStart(t)
    \/ \E t \in Launched, dl \in DownloadedBytes, tot \in TotalBytes :
          ProgressDownloading(t, [status |-> "downloading", downloaded |-> dl, total |-> tot])
    \/ \E t \in Launched : ProgressFinished(t)
    \/ \E t \in Launched : ProgressFinishedMessage(t)
    \/ \E t \in Launched : ProgressError(t)
    \/ \E t \in Launched, o \in ExtractOutcomes, f \in Filenames : AdapterReturn(t, o, f)
    \/ \E t \in Launched : WorkerFinish(t)
    \/ \E r \in Readers, t \in TaskIds : Subscribe(r, t)
    \/ \E r \in Readers : Poll(r)
    \/ \E t \in TaskIds : cleanup_task(t)

Spec == Init /\ [][Next]_vars

StreamSpec == Init /\ [][StreamNext]_vars

\* The worker thread and the subscription's generator keep running: a step of
\* theirs that stays possible is eventually taken.  Nothing is assumed of the
\* adapter (the fetch may never return) or of the clients.
FairSpec ==
    /\ Spec
    /\ \A t \in Launched : WF_vars(WorkerStart(t))
    /\ \A t \in Launched : WF_vars(ProgressFinishedMessage(t))
    /\ \A t \in Launched : WF_vars(WorkerFinish(t))
    /\ \A r \in Readers : WF_vars(Poll(r))

\* ------------------------------------------------------------- helpers of the claims
Last(s) == s[Len(s)]
Range(s) == {s[i] : i \in 1..Len(s)}
ProcessingMessage == Msg("Procesando archivo...", NoArg)
TerminalStatuses == {"completed", "error"}
EndStatuses == {"completed", "error", "not_found"}
OpenStatuses == {"downloading", "processing"}
HasTerminalRecord(t) ==
    t \in DOMAIN download_progress /\ download_progress[t].status \in TerminalStatuses

RECURSIVE IsSubseq(_, _)
IsSubseq(a, b) ==
    IF a = <<>> THEN TRUE
    ELSE IF b = <<>> THEN FALSE
    ELSE IF a[1] = b[1] THEN IsSubseq(Tail(a), Tail(b))
    ELSE IsSubseq(a, Tail(b))

\* ------------------------------------------------------------- C1
\* C1: a subscription to a task id that never had a record finds no record,
\* and it is either before its first poll with nothing emitted, or ended with
\* exactly one event, the not_found record.
C1_NeverCreatedNotFound ==
    \A r \in Readers :
        (rpc[r] # "idle" /\ rtask[r] \notin Launched) =>
            /\ snapshot(download_progress, rtask[r]) = NotFoundRecord
            /\ \/ rpc[r] = "polling" /\ emitted[r] = <<>>
               \/ rpc[r] = "done" /\ emitted[r] = <<NotFoundRecord>>

C1_Witness ==
    \E r \in Readers :
        rtask[r] = "t2" /\ rpc[r] = "done" /\ emitted[r] = <<NotFoundRecord>>

\* ------------------------------------------------------------- C2
\* C2: every record a reader obtained is one of the values its record held
\* between two writer steps, and never the half-patched record: status
\* 'processing' goes with the message 'Procesando archivo...' and with no other.
C2_NoTornRead ==
    \A r \in Readers :
        current_progress[r] # NoneValue =>
            /\ current_progress[r] \in Range(hist[r])
            /\ (current_progress[r].status = "processing")
                   <=> (current_progress[r].message = ProcessingMessage)

C2_Witness ==
    \E r \in Readers :
        /\ current_progress[r] # NoneValue
        /\ current_progress[r].status = "processing"
        /\ Len(emitted[r]) >= 2

\* ------------------------------------------------------------- C3
\* C3: a step taken while a task's record is 'completed' or 'error' leaves
\* that record as it is or removes it, and only cleanup_task removes it.
C3_TerminalFrozen ==
    [][\A t \in TaskIds :
          HasTerminalRecord(t) =>
              /\ (t \in DOMAIN download_progress' =>
                      download_progress'[t] = download_progress[t])
              /\ (t \notin DOMAIN download_progress' => t \in removed')]_vars

C3_Witness ==
    \E t \in Launched :
        wpc[t] = "done" /\ lastWrite[t].status = "completed"
        /\ t \in removed /\ t \notin DOMAIN download_progress

\* ------------------------------------------------------------- C4
\* C4: whatever download_media does, the worker comes to its end with a last
\* write that is 'completed' for a success result and 'error' otherwise (a
\* fault raised inside progress_callback included), and once download_media
\* has returned the task comes to hold a terminal record.
C4_WorkerEndsTerminal ==
    \A t \in Launched :
        /\ wpc[t] \in {"start", "fetching", "patching", "returned", "done"}
        /\ wpc[t] = "done" =>
               /\ result[t].kind = "return"
               /\ lastWrite[t].status =
                      (IF result[t].success THEN "completed" ELSE "error")
               /\ t \in callbackFailed => lastWrite[t].status = "error"

C4_NoFaultEscapes ==
    /\ []C4_WorkerEndsTerminal
    /\ \A t \in Launched : (wpc[t] = "returned") ~> HasTerminalRecord(t)

C4_Witness ==
    \E t \in Launched :
        /\ t \in callbackFailed
        /\ wpc[t] = "done"
        /\ lastWrite[t].status = "error"
        /\ HasTerminalRecord(t)

\* ------------------------------------------------------------- C5
\* C5: after a cleanup_task call that removed the record of a running fetch,
\* no progress_callback call of that fetch fails.
C5_CleanupLeavesFetchAlone ==
    \A t \in removedInFlight : t \notin callbackFailed

\* ------------------------------------------------------------- C8
\* C8 as stated: an ended subscription to a task no cleanup touched has
\* emitted every distinct value its record took since its first poll.
C8_EveryChangeEmitted ==
    \A r \in Readers :
        (rpc[r] = "done" /\ rtask[r] \notin removed) => emitted[r] = hist[r]

\* C8 amended: the events of a subscription are, in order, values its record
\* took since its first poll, starting with the first polled one and, once
\* the subscription has ended, ending with the last one; values that came and
\* went between two polls are not emitted.
C8_EmittedInOrder ==
    \A r \in Readers :
        /\ IsSubseq(emitted[r], hist[r])
        /\ emitted[r] # <<>> => emitted[r][1] = hist[r][1]
        /\ rpc[r] = "done" => Last(emitted[r]) = Last(hist[r])

C8_Witness ==
    \E r \in Readers :
        /\ rpc[r] = "done"
        /\ Len(emitted[r]) >= 2
        /\ Len(hist[r]) > Len(emitted[r])

\* ------------------------------------------------------------- C9
\* C9: an ended subscription has emitted at least one event, its last event
\* and its last polled record have status completed, error or not_found, no
\* earlier event has such a status, a subscription that goes on has last
\* polled 'downloading' or 'processing'; and a subscription whose record is
\* terminal or absent for good comes to its end.
C9_EndsOnStopStatus ==
    \A r \in Readers :
        /\ rpc[r] = "done" =>
               /\ emitted[r] # <<>>
               /\ Last(emitted[r]).status \in EndStatuses
               /\ current_progress[r].status \in EndStatuses
        /\ \A i \in 1..(Len(emitted[r]) - 1) : emitted[r][i].status \in OpenStatuses
        /\ (rpc[r] = "polling" /\ current_progress[r] # NoneValue) =>
               /\ current_progress[r].status \in OpenStatuses
               /\ Last(emitted[r]) = current_progress[r]

Settled(t) == snapshot(download_progress, t).status \in EndStatuses

C9_SubscriptionEnds ==
    /\ []C9_EndsOnStopStatus
    /\ \A r \in Readers :
          []((rpc[r] = "polling" /\ []Settled(rtask[r])) => <>(rpc[r] = "done"))

C9_Witness ==
    \E r \in Readers :
        /\ rpc[r] = "done"
        /\ Len(emitted[r]) >= 3
        /\ Last(emitted[r]).status = "error"

\* ------------------------------------------------------------- C10
\* C10: a subscription opened after a cleanup_task call removed the record of
\* its task id emits the not_found record on its first poll, and ends.
C10_NotFoundAfterCleanup ==
    \A r \in afterCleanup :
        emitted[r] # <<>> => (emitted[r] = <<NotFoundRecord>> /\ rpc[r] = "done")

\* ------------------------------------------------------------- C6
\* C6 as stated: once the generator has ended, the temporary directory is gone.
C6_TempDirGone == gpc = "ended" => ~tempDir

\* C6 amended: once the generator has ended, shutil.rmtree has been called,
\* and the temporary directory is gone unless that call raised.
C6_TempDirGoneUnlessRmtreeFails ==
    gpc = "ended" =>
        /\ exitKind \in {"exhausted", "closed", "fault"}
        /\ tempDir <=> rmtreeFailed
        /\ ~tempDir => dirFiles = 0
        /\ resp.kind = "stream"

C6_Witness ==
    gpc = "ended" /\ exitKind = "closed" /\ sent > 0 /\ remaining > 0 /\ ~tempDir

\* ------------------------------------------------------------- C7
\* C7: a request that failed before any byte of the body was yielded has
\* been answered with a JSON failure whose status is not 200.
C7_EarlyFailureIsJson ==
    failedEarly => (resp.kind = "json" /\ resp.status # 200)

\* ------------------------------------------------------------- C11
\* C11: a subscription to a launched task that no cleanup touched never
\* emits not_found, and while the worker has processed no progress event
\* and not returned from the fetch its first event is the 'Conectando...'
\* record.
C11_LaunchedNeverNotFound ==
    \A r \in Readers :
        (rtask[r] \in Launched /\ rtask[r] \notin removed) =>
            /\ \A i \in 1..Len(emitted[r]) : emitted[r][i].status # "not_found"
            /\ (emitted[r] # <<>> /\ events[rtask[r]] = 0
                    /\ wpc[rtask[r]] \in {"start", "fetching"}) =>
                   emitted[r][1] = ConnectingRecord

\* ------------------------------------------------------------- C12
\* C12: no two events a subscription emits one after the other are equal
\* records.
C12_NoEqualNeighbours ==
    \A r \in Readers :
        \A i \in 1..(Len(emitted[r]) - 1) : emitted[r][i] # emitted[r][i + 1]

\* A 'downloading' record was emitted, the record was written again with the
\* same rounded percentage and then patched in place by 'finished', and the
\* patched record has been emitted as the next event.
C12_Witness ==
    \E r \in Readers :
        /\ Len(emitted[r]) >= 2
        /\ emitted[r][Len(emitted[r]) - 1] = DownloadingRecord(4237)
        /\ Last(emitted[r]) =
               [DownloadingRecord(4241) EXCEPT !.status = "processing",
                                               !.message = ProcessingMessage]
        /\ events[rtask[r]] >= 3

\* ------------------------------------------------------------- C13
\* The table after cleanup_task(t) on table dp.
AfterCleanup(dp, t) == Del(dp, t)
SameElsewhere(dp, dq, t) ==
    \A u \in TaskIds \ {t} :
        /\ (u \in DOMAIN dp) <=> (u \in DOMAIN dq)
        /\ u \in DOMAIN dp => dq[u] = dp[u]

\* C13: on every table the program reaches and for every task id,
\* cleanup_task answers success, leaves no record for the id and every other
\* id as it was, and a second call answers success and changes nothing; and
\* every cleanup_task step the program takes does just that.
C13_CleanupOnAnyTable ==
    \A t \in TaskIds :
        LET once == AfterCleanup(download_progress, t)
            twice == AfterCleanup(once, t)
        IN  /\ cleanup_response(download_progress, t).success
            /\ cleanup_response(download_progress, t).status = 200
            /\ t \notin DOMAIN once
            /\ SameElsewhere(download_progress, once, t)
            /\ cleanup_response(once, t).success
            /\ cleanup_response(once, t).status = 200
            /\ twice = once

C13_CleanupIdempotentTotal ==
    /\ []C13_CleanupOnAnyTable
    /\ [][\A t \in TaskIds :
            cleanup_task(t) =>
                /\ t \notin DOMAIN download_progress'
                /\ SameElsewhere(download_progress, download_progress', t)
                /\ download_progress' = AfterCleanup(download_progress, t)]_vars

\* A cleanup has removed the record of a fetch that is still running.
C13_Witness ==
    \E t \in Launched :
        /\ t \in removedInFlight
        /\ t \notin DOMAIN download_progress
        /\ wpc[t] = "fetching"
        /\ events[t] >= 1

\* ------------------------------------------------------------- C14
StatusRank(status) ==
    IF status = "downloading" THEN 0 ELSE IF status = "processing" THEN 1 ELSE 2

\* C14: for a task no cleanup touched, the record is created as
\* 'downloading' with percentage 0, and no step moves its status backwards
\* along downloading, processing, (completed | error).
C14_StatusOnlyForward ==
    [][\A t \in Launched :
          t \notin removed' =>
              /\ (t \notin DOMAIN download_progress /\ t \in DOMAIN download_progress') =>
                     /\ download_progress'[t].status = "downloading"
                     /\ download_progress'[t].percentage = 0
              /\ (t \in DOMAIN download_progress /\ t \in DOMAIN download_progress') =>
                     StatusRank(download_progress[t].status)
                         <= StatusRank(download_progress'[t].status)]_vars

====
